---- MODULE Spec2Model ----
(***************************************************************************)
(* Command relay and motion refresh of the vehicle control service:        *)
(*   vehicle/comms/server.py    (echo, handle_arm, handle_mode,            *)
(*                               motion_loop)                              *)
(*   vehicle/comms/navigator.py (Navigator.send_rc, clear_motion, arm,     *)
(*                               disarm, change_mode)                      *)
(*                                                                         *)
(* The service runs on one asyncio event loop: a coroutine runs without    *)
(* interruption from one await to the next.  `running` names the handler   *)
(* that holds the loop; the steps of one handler between two awaits are    *)
(* separate actions, but no other coroutine can step in between them.      *)
(***************************************************************************)
EXTENDS Integers, Sequences, FiniteSets, TLC

VARIABLES
    armed,              \* navigator.status()['is_armed']
    mode,               \* navigator.status()['mode']
    last_motion,        \* server.py:13 {"method": ..., "data": ...}
    clients,            \* server.py:10 set of open websockets
    pc,                 \* per connection: position of its echo() coroutine
    running,            \* the handler holding the event loop, 0 at an await
    message,            \* the raw text the running handler received
    commands,           \* local `commands` of the running handler
    arm_result,         \* local `arm_result` of the running handler
    calls,              \* calls made on the vehicle link since the last await
    sent,               \* the message the last step wrote to a websocket
    ran,                \* coroutine that took the last step
    loop_alive,         \* the motion_loop task has not died of an exception
    exit_pending,       \* SystemExit is propagating through the handler
    exited,             \* the process has left asyncio.run
    run_pc,             \* position of run() around asyncio.run
    stale,              \* a disarm has happened since last_motion was stored
    rcin,               \* send_rc: positional / rcinX arguments supplied
    named,              \* send_rc: keyword channel names supplied
    rc_channel_values   \* send_rc: the frame handed to the link

vars == <<armed, mode, last_motion, clients, pc, running, message, commands,
          arm_result, calls, sent, ran, loop_alive, exit_pending, exited,
          run_pc, stale, rcin, named, rc_channel_values>>

serverVars == <<armed, mode, last_motion, clients, pc, running, message,
                commands, arm_result, calls, sent, ran, loop_alive,
                exit_pending, exited, run_pc, stale>>

rcVars == <<rcin, named, rc_channel_values>>

----------------------------------------------------------------------------
(* Bounds and program constants *)

NumClients == 2
MaxSupplied == 2

Sentinel == 65535
LoopDefault == 665535
StoppedPwm == 1500
NumChannels == 18
NumMotion == 6
Thrusters == 8

Clients == 1..NumClients

PyNone == "<None>"
NoData == <<>>
NoMessage == <<>>
NoCommands == <<>>
NoSent == <<>>
JNull == [null |-> TRUE]

Truthy(x) == x \notin {PyNone, ""}

Get(d, k, default) == IF k \in DOMAIN d THEN d[k] ELSE default

Merge(f, g) == [k \in (DOMAIN f) \cup (DOMAIN g) |->
                   IF k \in DOMAIN g THEN g[k] ELSE f[k]]

Empty == [k \in {} |-> 0]

----------------------------------------------------------------------------
(* Navigator.send_rc and clear_motion *)

ChannelNames == <<"pitch", "roll", "throttle", "yaw", "forward", "lateral",
                  "camera_pan", "camera_tilt", "lights1", "lights2",
                  "video_switch">>

\* rcinN as the callee sees it: the supplied value or the default 65535
Rcin(pos, i) == IF i \in DOMAIN pos THEN pos[i] ELSE Sentinel

\* `name or rcinN`: a keyword left at None, or given as 0, is falsy
NameOrRcin(pos, kw, i) ==
    IF ChannelNames[i] \in DOMAIN kw /\ kw[ChannelNames[i]] # 0
    THEN kw[ChannelNames[i]]
    ELSE Rcin(pos, i)

send_rc(pos, kw) ==
    [i \in 1..NumChannels |->
        IF i <= Len(ChannelNames) THEN NameOrRcin(pos, kw, i)
        ELSE Rcin(pos, i)]

\* faulty variant of clear_motion: stops only the first four channels
clear_motion_four(stopped_pwm) ==
    send_rc([i \in 1..4 |-> stopped_pwm], Empty)

clear_motion(stopped_pwm) ==
    send_rc([i \in 1..NumMotion |-> stopped_pwm], Empty)

----------------------------------------------------------------------------
(* Calls on the vehicle link *)

RcOverride(frame) == [op |-> "rc_channels_override_send", frame |-> frame]
ManualControl(x, y, z, r, buttons) ==
    [op |-> "manual_control_send", x |-> x, y |-> y, z |-> z, r |-> r,
     buttons |-> buttons]
LinkArm(ok) == [op |-> "arm", ok |-> ok]
LinkDisarm(ok) == [op |-> "disarm", ok |-> ok]
SetMode(m) == [op |-> "set_mode", mode |-> m]

ModeMapping == {"MANUAL", "STABILIZE"}

Upper(s) == CASE s = "stabilize" -> "STABILIZE"
              [] s = "manual" -> "MANUAL"
              [] OTHER -> s

status == [mode |-> mode, is_armed |-> armed]

ServoRaw == {1500, 1600}

get_thruster_outputs(raw) == [i \in 1..Thrusters |-> raw - 1500]

----------------------------------------------------------------------------
(* Inbound messages *)

ArmFields == {Empty, [arm |-> 1], [arm |-> 0]}
ModeFields == {[mode |-> "MANUAL"], [mode |-> "stabilize"],
               [mode |-> "BOGUS"]}
ManualDrive == [drive_method |-> "manual", pitch |-> 500, roll |-> 0,
                throttle |-> 0, yaw |-> 0, buttons |-> 0]
DriveFields ==
    {Empty,
     ManualDrive,
     [drive_method |-> "rc_channels", roll |-> 1700],
     [drive_method |-> "rc_channels", pitch |-> 1500, roll |-> 1700,
      throttle |-> 1500, yaw |-> 1500]}

\* the example package of server.py:136
ExamplePackage == Merge([arm |-> 1, mode |-> "MANUAL"], ManualDrive)

\* arm and drive fields in every combination, each mode on its own, and the
\* example package
Objects ==
    {Merge(a, d) : a \in ArmFields, d \in DriveFields}
    \cup ModeFields
    \cup {ExamplePackage}

RawMessages ==
    {[kind |-> "garbage"], [kind |-> "number"]}
    \cup {[kind |-> "object", value |-> o] : o \in Objects}

ErrInvalidJSON == [error |-> "Invalid JSON"]

----------------------------------------------------------------------------
(* echo(): one coroutine per connection *)

\* faulty variant of EchoOrder: the intent is stored before arm and mode
EchoOrderIntentFirst == <<"intent", "arm", "mode", "status">>

\* the order of the steps taken for one parsed message (server.py:56-74)
EchoOrder == <<"arm", "mode", "intent", "status">>

After(step) ==
    LET i == CHOOSE j \in 1..Len(EchoOrder) : EchoOrder[j] = step
    IN  EchoOrder[i + 1]

AlreadyArmed == [armed |-> TRUE, message |-> "Vehicle already armed"]
ArmFailed == [armed |-> FALSE, error |-> "arming failed"]
MotorsArmed == [armed |-> TRUE, message |-> "motors armed"]
AlreadyDisarmed == [armed |-> FALSE, message |-> "Vehicle already disarmed"]
MotorsDisarmed == [armed |-> FALSE, message |-> "Motors disarmed"]

\* faulty variant of Idempotent: only a disarm request returns at once
IdempotentDisarmOnly(arming, is_armed) == ~arming /\ ~is_armed

\* handle_arm returns at once when the request asks for the state at hand
Idempotent(arming, is_armed) == arming = is_armed

Goto(c, label) == pc' = [pc EXCEPT ![c] = label]

Connect(c) ==
    /\ running = 0 /\ ~exited
    /\ pc[c] = "off"
    /\ clients' = clients \cup {c}
    /\ Goto(c, "recv")
    /\ calls' = <<>>
    /\ ran' = "echo"
    /\ UNCHANGED rcVars
    /\ UNCHANGED <<run_pc, stale>>
    /\ sent' = NoSent
    /\ UNCHANGED <<armed, mode, last_motion, running, message, commands,
                   arm_result, loop_alive, exit_pending, exited>>

\* `async for message in websocket` yields the next message
Recv(c, raw) ==
    /\ running = 0 /\ ~exited
    /\ pc[c] = "recv"
    /\ message' = raw
    /\ running' = c
    /\ Goto(c, "parse")
    /\ calls' = <<>>
    /\ ran' = "echo"
    /\ UNCHANGED rcVars
    /\ UNCHANGED <<run_pc, stale>>
    /\ sent' = NoSent
    /\ UNCHANGED <<armed, mode, last_motion, clients, commands, arm_result,
                   loop_alive, exit_pending, exited>>

\* faulty variant of ParseInvalid: the JSONDecodeError is not caught in the
\* message loop and ends the connection
ParseInvalidUncaught(c) ==
    /\ running = c /\ pc[c] = "parse"
    /\ message.kind = "garbage"
    /\ pc' = [pc EXCEPT ![c] = "finally"]
    /\ message' = NoMessage
    /\ ran' = "echo"
    /\ sent' = NoSent
    /\ UNCHANGED rcVars
    /\ UNCHANGED <<run_pc, stale>>
    /\ UNCHANGED <<armed, mode, last_motion, clients, running, commands,
                   arm_result, calls, loop_alive, exit_pending, exited>>

\* json.loads raises JSONDecodeError: reply with the error and go on
ParseInvalid(c) ==
    /\ running = c /\ pc[c] = "parse"
    /\ message.kind = "garbage"
    /\ sent' = [to |-> c, body |-> ErrInvalidJSON]
    /\ Goto(c, "send")
    /\ running' = 0
    /\ message' = NoMessage
    /\ ran' = "echo"
    /\ UNCHANGED rcVars
    /\ UNCHANGED <<run_pc, stale>>
    /\ UNCHANGED <<armed, mode, last_motion, clients, commands, arm_result,
                   calls, loop_alive, exit_pending, exited>>

\* json.loads returns a number: `'arm' in commands` raises TypeError, which
\* only the outer `except Exception` catches
ParseNonObject(c) ==
    /\ running = c /\ pc[c] = "parse"
    /\ message.kind = "number"
    /\ Goto(c, "finally")
    /\ message' = NoMessage
    /\ ran' = "echo"
    /\ UNCHANGED rcVars
    /\ UNCHANGED <<run_pc, stale>>
    /\ sent' = NoSent
    /\ UNCHANGED <<armed, mode, last_motion, clients, running, commands,
                   arm_result, calls, loop_alive, exit_pending, exited>>

ParseObject(c) ==
    /\ running = c /\ pc[c] = "parse"
    /\ message.kind = "object"
    /\ commands' = message.value
    /\ arm_result' = JNull
    /\ Goto(c, EchoOrder[1])
    /\ message' = NoMessage
    /\ ran' = "echo"
    /\ UNCHANGED rcVars
    /\ UNCHANGED <<run_pc, stale>>
    /\ sent' = NoSent
    /\ UNCHANGED <<armed, mode, last_motion, clients, running, calls,
                   loop_alive, exit_pending, exited>>

HandleArmSkip(c) ==
    /\ running = c /\ pc[c] = "arm"
    /\ "arm" \notin DOMAIN commands
    /\ Goto(c, After("arm"))
    /\ ran' = "echo"
    /\ UNCHANGED rcVars
    /\ UNCHANGED <<run_pc, stale>>
    /\ sent' = NoSent
    /\ UNCHANGED <<armed, mode, last_motion, clients, running, message,
                   commands, arm_result, calls, loop_alive, exit_pending,
                   exited>>

HandleArmNoop(c) ==
    /\ running = c /\ pc[c] = "arm"
    /\ "arm" \in DOMAIN commands
    /\ Idempotent(commands.arm # 0, status.is_armed)
    /\ arm_result' = IF commands.arm # 0 THEN AlreadyArmed ELSE AlreadyDisarmed
    /\ Goto(c, After("arm"))
    /\ ran' = "echo"
    /\ UNCHANGED rcVars
    /\ UNCHANGED <<run_pc, stale>>
    /\ sent' = NoSent
    /\ UNCHANGED <<armed, mode, last_motion, clients, running, message,
                   commands, calls, loop_alive, exit_pending, exited>>

\* faulty variant of HandleArmClear: the neutral frame is left out
HandleArmNoClear(c) ==
    /\ running = c /\ pc[c] = "arm"
    /\ "arm" \in DOMAIN commands
    /\ ~Idempotent(commands.arm # 0, status.is_armed)
    /\ Goto(c, IF commands.arm # 0 THEN "arm_prim" ELSE "disarm_prim")
    /\ ran' = "echo"
    /\ UNCHANGED rcVars
    /\ UNCHANGED <<run_pc, stale>>
    /\ sent' = NoSent
    /\ UNCHANGED <<armed, mode, last_motion, clients, running, message,
                   commands, arm_result, calls, loop_alive, exit_pending,
                   exited>>

\* faulty variant of HandleArmClear: the settle delay is awaited, which
\* frees the event loop
HandleArmClearYields(c) ==
    /\ running = c /\ pc[c] = "arm"
    /\ "arm" \in DOMAIN commands
    /\ ~Idempotent(commands.arm # 0, status.is_armed)
    /\ calls' = Append(calls, RcOverride(clear_motion(StoppedPwm)))
    /\ Goto(c, IF commands.arm # 0 THEN "arm_prim" ELSE "disarm_prim")
    /\ running' = 0
    /\ ran' = "echo"
    /\ UNCHANGED rcVars
    /\ UNCHANGED <<run_pc, stale>>
    /\ sent' = NoSent
    /\ UNCHANGED <<armed, mode, last_motion, clients, message,
                   commands, arm_result, loop_alive, exit_pending, exited>>

\* navigator.clear_motion() before the arm or disarm primitive
HandleArmClear(c) ==
    /\ running = c /\ pc[c] = "arm"
    /\ "arm" \in DOMAIN commands
    /\ ~Idempotent(commands.arm # 0, status.is_armed)
    /\ calls' = Append(calls, RcOverride(clear_motion(StoppedPwm)))
    /\ Goto(c, IF commands.arm # 0 THEN "arm_prim" ELSE "disarm_prim")
    /\ ran' = "echo"
    /\ UNCHANGED rcVars
    /\ UNCHANGED <<run_pc, stale>>
    /\ sent' = NoSent
    /\ UNCHANGED <<armed, mode, last_motion, clients, running, message,
                   commands, arm_result, loop_alive, exit_pending, exited>>

\* time.sleep(0.1); navigator.arm() returns
ArmOk(c) ==
    /\ running = c /\ pc[c] = "arm_prim"
    /\ calls' = Append(calls, LinkArm(TRUE))
    /\ armed' = TRUE
    /\ arm_result' = MotorsArmed
    /\ Goto(c, After("arm"))
    /\ ran' = "echo"
    /\ UNCHANGED rcVars
    /\ UNCHANGED <<run_pc, stale>>
    /\ sent' = NoSent
    /\ UNCHANGED <<mode, last_motion, clients, running, message, commands,
                   loop_alive, exit_pending, exited>>

\* navigator.arm() raises: caught in handle_arm
ArmFail(c) ==
    /\ running = c /\ pc[c] = "arm_prim"
    /\ calls' = Append(calls, LinkArm(FALSE))
    /\ arm_result' = ArmFailed
    /\ Goto(c, After("arm"))
    /\ ran' = "echo"
    /\ UNCHANGED rcVars
    /\ UNCHANGED <<run_pc, stale>>
    /\ sent' = NoSent
    /\ UNCHANGED <<armed, mode, last_motion, clients, running, message,
                   commands, loop_alive, exit_pending, exited>>

\* time.sleep(0.1); navigator.disarm() returns
DisarmOk(c) ==
    /\ running = c /\ pc[c] = "disarm_prim"
    /\ calls' = Append(calls, LinkDisarm(TRUE))
    /\ armed' = FALSE
    /\ arm_result' = MotorsDisarmed
    /\ Goto(c, After("arm"))
    /\ ran' = "echo"
    /\ UNCHANGED rcVars
    /\ stale' = Truthy(last_motion.method)
    /\ UNCHANGED run_pc
    /\ sent' = NoSent
    /\ UNCHANGED <<mode, last_motion, clients, running, message, commands,
                   loop_alive, exit_pending, exited>>

\* navigator.disarm() raises: nothing in handle_arm catches it, the outer
\* `except Exception` of echo does
DisarmFail(c) ==
    /\ running = c /\ pc[c] = "disarm_prim"
    /\ calls' = Append(calls, LinkDisarm(FALSE))
    /\ Goto(c, "finally")
    /\ commands' = NoCommands
    /\ arm_result' = JNull
    /\ ran' = "echo"
    /\ UNCHANGED rcVars
    /\ UNCHANGED <<run_pc, stale>>
    /\ sent' = NoSent
    /\ UNCHANGED <<armed, mode, last_motion, clients, running, message,
                   loop_alive, exit_pending, exited>>

HandleModeSkip(c) ==
    /\ running = c /\ pc[c] = "mode"
    /\ \/ "mode" \notin DOMAIN commands
       \/ "mode" \in DOMAIN commands /\ commands.mode = status.mode
    /\ Goto(c, After("mode"))
    /\ ran' = "echo"
    /\ UNCHANGED rcVars
    /\ UNCHANGED <<run_pc, stale>>
    /\ sent' = NoSent
    /\ UNCHANGED <<armed, mode, last_motion, clients, running, message,
                   commands, arm_result, calls, loop_alive, exit_pending,
                   exited>>

\* navigator.change_mode(mode) with a mode of the link's table
HandleModeChange(c) ==
    /\ running = c /\ pc[c] = "mode"
    /\ "mode" \in DOMAIN commands
    /\ commands.mode # status.mode
    /\ Upper(commands.mode) \in ModeMapping
    /\ calls' = Append(calls, SetMode(Upper(commands.mode)))
    /\ mode' = Upper(commands.mode)
    /\ Goto(c, After("mode"))
    /\ ran' = "echo"
    /\ UNCHANGED rcVars
    /\ UNCHANGED <<run_pc, stale>>
    /\ sent' = NoSent
    /\ UNCHANGED <<armed, last_motion, clients, running, message, commands,
                   arm_result, loop_alive, exit_pending, exited>>

\* navigator.change_mode(mode) with an unknown mode: sys.exit(1)
HandleModeExit(c) ==
    /\ running = c /\ pc[c] = "mode"
    /\ "mode" \in DOMAIN commands
    /\ commands.mode # status.mode
    /\ Upper(commands.mode) \notin ModeMapping
    /\ exit_pending' = TRUE
    /\ Goto(c, "finally")
    /\ commands' = NoCommands
    /\ arm_result' = JNull
    /\ ran' = "echo"
    /\ UNCHANGED rcVars
    /\ UNCHANGED <<run_pc, stale>>
    /\ sent' = NoSent
    /\ UNCHANGED <<armed, mode, last_motion, clients, running, message, calls,
                   loop_alive, exited>>

\* faulty variant of AcceptsIntent: the armed flag is not consulted
AcceptsIntentWhateverArmed == "drive_method" \in DOMAIN commands

\* if navigator.status()['is_armed'] and 'drive_method' in commands:
AcceptsIntent == status.is_armed /\ "drive_method" \in DOMAIN commands

\* the condition is false: last_motion is left alone
StoreSkip(c) ==
    /\ running = c /\ pc[c] = "intent"
    /\ ~AcceptsIntent
    /\ Goto(c, After("intent"))
    /\ ran' = "echo"
    /\ UNCHANGED rcVars
    /\ UNCHANGED <<run_pc, stale>>
    /\ sent' = NoSent
    /\ UNCHANGED <<armed, mode, last_motion, clients, running, message,
                   commands, arm_result, calls, loop_alive, exit_pending,
                   exited>>

\* faulty variant of StoreMethod: an await between the two assignments
StoreMethodYields(c) ==
    /\ running = c /\ pc[c] = "intent"
    /\ AcceptsIntent
    /\ last_motion' = [last_motion EXCEPT !.method = commands.drive_method]
    /\ Goto(c, "intent_data")
    /\ running' = 0
    /\ ran' = "echo"
    /\ UNCHANGED rcVars
    /\ UNCHANGED <<run_pc, stale>>
    /\ sent' = NoSent
    /\ UNCHANGED <<armed, mode, clients, message, commands,
                   arm_result, calls, loop_alive, exit_pending, exited>>

\* last_motion['method'] = commands['drive_method']
StoreMethod(c) ==
    /\ running = c /\ pc[c] = "intent"
    /\ AcceptsIntent
    /\ last_motion' = [last_motion EXCEPT !.method = commands.drive_method]
    /\ Goto(c, "intent_data")
    /\ ran' = "echo"
    /\ UNCHANGED rcVars
    /\ UNCHANGED <<run_pc, stale>>
    /\ sent' = NoSent
    /\ UNCHANGED <<armed, mode, clients, running, message, commands,
                   arm_result, calls, loop_alive, exit_pending, exited>>

\* last_motion['data'] = commands
StoreData(c) ==
    /\ running = c /\ pc[c] = "intent_data"
    /\ last_motion' = [last_motion EXCEPT !.data = commands]
    /\ stale' = FALSE
    /\ Goto(c, After("intent"))
    /\ ran' = "echo"
    /\ UNCHANGED rcVars
    /\ UNCHANGED run_pc
    /\ sent' = NoSent
    /\ UNCHANGED <<armed, mode, clients, running, message, commands,
                   arm_result, calls, loop_alive, exit_pending, exited>>

\* the intent block of echo: two assignments with no await between them
StoreIntent(c) == StoreSkip(c) \/ StoreMethod(c) \/ StoreData(c)

\* build the status reply and hand it to websocket.send
BuildReply(c, raw) ==
    /\ running = c /\ pc[c] = "status"
    /\ sent' = [to |-> c,
                body |-> [message_received |-> TRUE,
                          arm_result |-> arm_result,
                          navigator_status |-> status,
                          thrusters_value |-> get_thruster_outputs(raw)]]
    /\ Goto(c, "send")
    /\ running' = 0
    /\ commands' = NoCommands
    /\ arm_result' = JNull
    /\ ran' = "echo"
    /\ UNCHANGED rcVars
    /\ UNCHANGED <<run_pc, stale>>
    /\ UNCHANGED <<armed, mode, last_motion, clients, message, calls,
                   loop_alive, exit_pending, exited>>

\* websocket.send returns: back to `async for`
SendDone(c) ==
    /\ running = 0 /\ ~exited
    /\ pc[c] = "send"
    /\ Goto(c, "recv")
    /\ calls' = <<>>
    /\ ran' = "echo"
    /\ UNCHANGED rcVars
    /\ UNCHANGED <<run_pc, stale>>
    /\ sent' = NoSent
    /\ UNCHANGED <<armed, mode, last_motion, clients, running, message,
                   commands, arm_result, loop_alive, exit_pending, exited>>

\* the connection closes (cleanly or not) while the handler awaits
Disconnect(c) ==
    /\ running = 0 /\ ~exited
    /\ pc[c] \in {"recv", "send"}
    /\ Goto(c, "finally")
    /\ running' = c
    /\ calls' = <<>>
    /\ ran' = "echo"
    /\ UNCHANGED rcVars
    /\ UNCHANGED <<run_pc, stale>>
    /\ sent' = NoSent
    /\ UNCHANGED <<armed, mode, last_motion, clients, message, commands,
                   arm_result, loop_alive, exit_pending, exited>>

\* asyncio.run cancels the tasks left when the loop is torn down
Cancel(c) ==
    /\ running = 0 /\ exited
    /\ pc[c] \in {"recv", "send"}
    /\ Goto(c, "finally")
    /\ running' = c
    /\ calls' = <<>>
    /\ ran' = "echo"
    /\ UNCHANGED rcVars
    /\ UNCHANGED <<run_pc, stale>>
    /\ sent' = NoSent
    /\ UNCHANGED <<armed, mode, last_motion, clients, message, commands,
                   arm_result, loop_alive, exit_pending, exited>>

\* finally: clients.remove(websocket); navigator.clear_motion()
TeardownClear(c) ==
    /\ running = c /\ pc[c] = "finally"
    /\ clients' = clients \ {c}
    /\ calls' = Append(calls, RcOverride(clear_motion(StoppedPwm)))
    /\ Goto(c, "td_disarm")
    /\ ran' = "echo"
    /\ UNCHANGED rcVars
    /\ UNCHANGED <<run_pc, stale>>
    /\ sent' = NoSent
    /\ UNCHANGED <<armed, mode, last_motion, running, message, commands,
                   arm_result, loop_alive, exit_pending, exited>>

\* finally: navigator.disarm() returns; a pending SystemExit then leaves
\* the event loop
TeardownDisarmOk(c) ==
    /\ running = c /\ pc[c] = "td_disarm"
    /\ calls' = Append(calls, LinkDisarm(TRUE))
    /\ armed' = FALSE
    /\ Goto(c, "off")
    /\ running' = 0
    /\ exited' = (exited \/ exit_pending)
    /\ exit_pending' = FALSE
    /\ ran' = "echo"
    /\ UNCHANGED rcVars
    /\ stale' = Truthy(last_motion.method)
    /\ UNCHANGED run_pc
    /\ sent' = NoSent
    /\ UNCHANGED <<mode, last_motion, clients, message, commands, arm_result,
                   loop_alive>>

\* finally: navigator.disarm() raises; the new exception replaces a pending
\* SystemExit and ends the handler task
TeardownDisarmFail(c) ==
    /\ running = c /\ pc[c] = "td_disarm"
    /\ calls' = Append(calls, LinkDisarm(FALSE))
    /\ Goto(c, "off")
    /\ running' = 0
    /\ exit_pending' = FALSE
    /\ ran' = "echo"
    /\ UNCHANGED rcVars
    /\ UNCHANGED <<run_pc, stale>>
    /\ sent' = NoSent
    /\ UNCHANGED <<armed, mode, last_motion, clients, message, commands,
                   arm_result, loop_alive, exited>>

----------------------------------------------------------------------------
(* motion_loop(): one tick between two sleeps *)

\* the frame motion_loop asks send_rc for: four positional arguments
LoopFrame(d) ==
    send_rc(<<Get(d, "pitch", LoopDefault), Get(d, "roll", LoopDefault),
              Get(d, "throttle", LoopDefault), Get(d, "yaw", LoopDefault)>>,
            Empty)

\* rc_channels_override_send packs each channel as an unsigned 16-bit value
Fits(frame) == \A i \in DOMAIN frame : frame[i] \in 0..65535

\* faulty variant of Acts: the armed flag is not consulted
ActsWhateverArmed == Truthy(last_motion.method)

\* the condition under which a tick acts on the stored intent
Acts == status.is_armed /\ Truthy(last_motion.method)

\* variant of TickIdle that sends the neutral frame on an idle tick
TickIdleSendsNeutral ==
    /\ running = 0 /\ ~exited /\ loop_alive
    /\ ~(status.is_armed /\ Truthy(last_motion.method))
    /\ calls' = <<RcOverride(clear_motion(StoppedPwm))>>
    /\ ran' = "motion_loop"
    /\ sent' = NoSent
    /\ UNCHANGED rcVars
    /\ UNCHANGED <<run_pc, stale>>
    /\ UNCHANGED <<armed, mode, last_motion, clients, pc, running, message,
                   commands, arm_result, loop_alive, exit_pending, exited>>

TickIdle ==
    /\ running = 0 /\ ~exited /\ loop_alive
    /\ ~Acts
    /\ calls' = <<>>
    /\ ran' = "motion_loop"
    /\ UNCHANGED rcVars
    /\ UNCHANGED <<run_pc, stale>>
    /\ sent' = NoSent
    /\ UNCHANGED <<armed, mode, last_motion, clients, pc, running, message,
                   commands, arm_result, loop_alive, exit_pending, exited>>

TickManual ==
    /\ running = 0 /\ ~exited /\ loop_alive
    /\ Acts
    /\ last_motion.method = "manual"
    /\ LET d == last_motion.data
       IN  calls' = <<ManualControl(Get(d, "pitch", 0), Get(d, "roll", 0),
                                    Get(d, "throttle", 0), Get(d, "yaw", 0),
                                    Get(d, "buttons", 0))>>
    /\ ran' = "motion_loop"
    /\ UNCHANGED rcVars
    /\ UNCHANGED <<run_pc, stale>>
    /\ sent' = NoSent
    /\ UNCHANGED <<armed, mode, last_motion, clients, pc, running, message,
                   commands, arm_result, loop_alive, exit_pending, exited>>

TickRc ==
    /\ running = 0 /\ ~exited /\ loop_alive
    /\ Acts
    /\ last_motion.method = "rc_channels"
    /\ calls' = <<RcOverride(LoopFrame(last_motion.data))>>
    /\ ran' = "motion_loop"
    /\ UNCHANGED rcVars
    /\ UNCHANGED <<run_pc, stale>>
    /\ sent' = NoSent
    /\ UNCHANGED <<armed, mode, last_motion, clients, pc, running, message,
                   commands, arm_result, loop_alive, exit_pending, exited>>

\* a value that does not fit the wire format may make the link raise, and
\* nothing in motion_loop catches it: the task ends
TickRcRaise ==
    /\ running = 0 /\ ~exited /\ loop_alive
    /\ Acts
    /\ last_motion.method = "rc_channels"
    /\ ~Fits(LoopFrame(last_motion.data))
    /\ calls' = <<RcOverride(LoopFrame(last_motion.data))>>
    /\ loop_alive' = FALSE
    /\ ran' = "motion_loop"
    /\ UNCHANGED rcVars
    /\ UNCHANGED <<run_pc, stale>>
    /\ sent' = NoSent
    /\ UNCHANGED <<armed, mode, last_motion, clients, pc, running, message,
                   commands, arm_result, exit_pending, exited>>

motion_loop == TickIdle \/ TickManual \/ TickRc \/ TickRcRaise


----------------------------------------------------------------------------
(* run(): asyncio.run(main()) and its except KeyboardInterrupt clause *)

\* SIGINT while the event loop is between callbacks: asyncio.run cancels
\* main() and then every remaining task, motion_loop included
Interrupt ==
    /\ running = 0 /\ ~exited /\ run_pc = "run"
    /\ exited' = TRUE
    /\ run_pc' = "interrupted"
    /\ calls' = <<>>
    /\ ran' = "run"
    /\ sent' = NoSent
    /\ UNCHANGED rcVars
    /\ UNCHANGED <<armed, mode, last_motion, clients, pc, message, commands,
                   arm_result, running, loop_alive, exit_pending, stale>>

\* faulty variant of RunExcept: the neutral frame is left out
RunExceptDisarmOnly ==
    /\ running = 0 /\ run_pc = "interrupted"
    /\ \A c \in Clients : pc[c] = "off"
    /\ calls' = <<>>
    /\ run_pc' = "disarm"
    /\ ran' = "run"
    /\ sent' = NoSent
    /\ UNCHANGED rcVars
    /\ UNCHANGED <<armed, mode, last_motion, clients, pc, message, commands,
                   arm_result, running, loop_alive, exit_pending, exited,
                   stale>>

\* except KeyboardInterrupt: navigator.clear_motion(), once asyncio.run has
\* run every handler's finally block and closed the loop
RunExcept ==
    /\ running = 0 /\ run_pc = "interrupted"
    /\ \A c \in Clients : pc[c] = "off"
    /\ calls' = <<RcOverride(clear_motion(StoppedPwm))>>
    /\ run_pc' = "disarm"
    /\ ran' = "run"
    /\ sent' = NoSent
    /\ UNCHANGED rcVars
    /\ UNCHANGED <<armed, mode, last_motion, clients, pc, message, commands,
                   arm_result, running, loop_alive, exit_pending, exited,
                   stale>>

\* navigator.disarm() returns; run() returns and the process ends
RunDisarmOk ==
    /\ run_pc = "disarm"
    /\ calls' = Append(calls, LinkDisarm(TRUE))
    /\ armed' = FALSE
    /\ stale' = Truthy(last_motion.method)
    /\ run_pc' = "done"
    /\ ran' = "run"
    /\ sent' = NoSent
    /\ UNCHANGED rcVars
    /\ UNCHANGED <<mode, last_motion, clients, pc, message, commands,
                   arm_result, running, loop_alive, exit_pending, exited>>

\* navigator.disarm() raises; the exception ends the process
RunDisarmFail ==
    /\ run_pc = "disarm"
    /\ calls' = Append(calls, LinkDisarm(FALSE))
    /\ run_pc' = "done"
    /\ ran' = "run"
    /\ sent' = NoSent
    /\ UNCHANGED rcVars
    /\ UNCHANGED <<armed, mode, last_motion, clients, pc, message, commands,
                   arm_result, running, loop_alive, exit_pending, exited,
                   stale>>

run == Interrupt \/ RunExcept \/ RunDisarmOk \/ RunDisarmFail
----------------------------------------------------------------------------
(* The service *)

\* Navigator.__init__ disarms and selects MANUAL; the module globals
InitServer ==
    /\ armed = FALSE
    /\ mode = "MANUAL"
    /\ last_motion = [method |-> PyNone, data |-> NoData]
    /\ clients = {}
    /\ pc = [c \in Clients |-> "off"]
    /\ running = 0
    /\ message = NoMessage
    /\ commands = NoCommands
    /\ arm_result = JNull
    /\ calls = <<>>
    /\ sent = NoSent
    /\ ran = "none"
    /\ loop_alive = TRUE
    /\ exit_pending = FALSE
    /\ exited = FALSE
    /\ run_pc = "run"
    /\ stale = FALSE

InitRc ==
    /\ rcin = Empty
    /\ named = Empty
    /\ rc_channel_values = <<>>

Init == InitServer /\ InitRc

echo(c) ==
    \/ Connect(c)
    \/ \E raw \in RawMessages : Recv(c, raw)
    \/ ParseInvalid(c)
    \/ ParseNonObject(c)
    \/ ParseObject(c)
    \/ HandleArmSkip(c)
    \/ HandleArmNoop(c)
    \/ HandleArmClear(c)
    \/ ArmOk(c)
    \/ ArmFail(c)
    \/ DisarmOk(c)
    \/ DisarmFail(c)
    \/ HandleModeSkip(c)
    \/ HandleModeChange(c)
    \/ HandleModeExit(c)
    \/ StoreIntent(c)
    \/ \E raw \in ServoRaw : BuildReply(c, raw)
    \/ SendDone(c)
    \/ Disconnect(c)
    \/ Cancel(c)
    \/ TeardownClear(c)
    \/ TeardownDisarmOk(c)
    \/ TeardownDisarmFail(c)

Next ==
    \/ \E c \in Clients : echo(c)
    \/ motion_loop
    \/ run

Spec == Init /\ [][Next]_vars

----------------------------------------------------------------------------
(* send_rc on its own: arguments are supplied one by one, then the call *)

RcValues == {0, 1100, 1900}

Supplied == Cardinality(DOMAIN rcin) + Cardinality(DOMAIN named)

SupplyPositional(i, v) ==
    /\ rc_channel_values = <<>>
    /\ Supplied < MaxSupplied
    /\ i \notin DOMAIN rcin
    /\ rcin' = Merge(rcin, [k \in {i} |-> v])
    /\ UNCHANGED <<named, rc_channel_values>>
    /\ UNCHANGED serverVars

SupplyNamed(n, v) ==
    /\ rc_channel_values = <<>>
    /\ Supplied < MaxSupplied
    /\ n \notin DOMAIN named
    /\ named' = Merge(named, [k \in {n} |-> v])
    /\ UNCHANGED <<rcin, rc_channel_values>>
    /\ UNCHANGED serverVars

CallSendRc ==
    /\ rc_channel_values = <<>>
    /\ rc_channel_values' = send_rc(rcin, named)
    /\ UNCHANGED <<rcin, named>>
    /\ UNCHANGED serverVars

NextRc ==
    \/ \E i \in 1..NumChannels, v \in RcValues : SupplyPositional(i, v)
    \/ \E i \in 1..Len(ChannelNames), v \in RcValues :
          SupplyNamed(ChannelNames[i], v)
    \/ CallSendRc

SpecRc == Init /\ [][NextRc]_vars

----------------------------------------------------------------------------
(* Properties *)

\* the neutral frame: the 6 motion channels stopped, the rest left alone
NeutralFrame == [i \in 1..NumChannels |-> IF i <= 6 THEN 1500 ELSE 65535]

LastCall(log) == log[Len(log)]

\* C1: a handler leaves its connection only through the teardown; the
\* teardown's first call on the link is the neutral frame, its second the
\* disarm, and when that disarm returns the vehicle is disarmed, whether or
\* not other clients are still connected.
C1_TeardownNeutralThenDisarm ==
    [][\A c \in Clients :
          /\ (c \in clients /\ c \notin clients') => pc[c] = "finally"
          /\ (pc[c] # "off" /\ pc'[c] = "off") => pc[c] = "td_disarm"
          /\ (pc[c] = "finally" /\ pc'[c] # "finally") =>
                /\ calls' = Append(calls, RcOverride(NeutralFrame))
                /\ pc'[c] = "td_disarm"
          /\ (pc[c] = "td_disarm" /\ pc'[c] # "td_disarm") =>
                /\ Len(calls') = Len(calls) + 1
                /\ LastCall(calls').op = "disarm"
                /\ LastCall(calls').ok => ~armed'
      ]_vars

\* a teardown has completed on a vehicle that holds an intent, its calls were
\* the neutral frame and the disarm, and another client is still connected
C1_Witness ==
    \E c \in Clients :
        /\ pc[c] = "off" /\ c \notin clients /\ clients # {}
        /\ running = 0 /\ ran = "echo"
        /\ ~armed
        /\ Len(calls) >= 2
        /\ LastCall(calls) = LinkDisarm(TRUE)
        /\ calls[Len(calls) - 1] = RcOverride(NeutralFrame)
        /\ Truthy(last_motion.method)

C3_IntentOnlyWhileArmed ==
    ran = "motion_loop" =>
        /\ calls # <<>> => armed
        /\ ~armed => \A i \in 1..Len(calls) :
                        calls[i] = RcOverride(NeutralFrame)

\* a tick taken while disarmed with a manual intent stored
C3_Witness ==
    /\ ran = "motion_loop"
    /\ ~armed
    /\ last_motion.method = "manual"
    /\ last_motion.data.pitch = 500

\* C4: while armed with an rc_channels intent stored, a tick sends one
\* channel-override frame in which each motion channel named in the intent
\* holds the supplied value and each motion channel not named holds 65535.
C4_RcIntentFrame ==
    (ran = "motion_loop" /\ armed /\ last_motion.method = "rc_channels") =>
        /\ Len(calls) = 1
        /\ calls[1].op = "rc_channels_override_send"
        /\ \A i \in 1..6 :
              calls[1].frame[i] =
                  IF ChannelNames[i] \in DOMAIN last_motion.data
                  THEN last_motion.data[ChannelNames[i]]
                  ELSE 65535

\* C5 as stated: handle_arm for an arm request on an armed vehicle returns
\* {armed: true, message: "already armed"}, calls nothing on the link and
\* leaves armed, mode and last_motion alone.
C5_ArmWhileArmedAsStated ==
    [][\A c \in Clients :
          (/\ running = c /\ pc[c] = "arm" /\ pc'[c] # "arm"
           /\ "arm" \in DOMAIN commands /\ commands.arm # 0 /\ armed) =>
              /\ arm_result' = [armed |-> TRUE, message |-> "already armed"]
              /\ calls' = calls
              /\ UNCHANGED <<armed, mode, last_motion>>
      ]_vars

\* C5 amended: the same, with the message the code returns,
\* "Vehicle already armed".
C5_ArmWhileArmedNoop ==
    [][\A c \in Clients :
          (/\ running = c /\ pc[c] = "arm" /\ pc'[c] # "arm"
           /\ "arm" \in DOMAIN commands /\ commands.arm # 0 /\ armed) =>
              /\ arm_result' =
                    [armed |-> TRUE, message |-> "Vehicle already armed"]
              /\ calls' = calls
              /\ UNCHANGED <<armed, mode, last_motion>>
      ]_vars

\* handle_arm has just returned for an arm request on an armed vehicle that
\* holds an intent
C5_Witness ==
    \E c \in Clients :
        /\ running = c /\ pc[c] = "mode"
        /\ "arm" \in DOMAIN commands /\ commands.arm = 1
        /\ arm_result = [armed |-> TRUE, message |-> "Vehicle already armed"]
        /\ calls = <<>>
        /\ armed
        /\ Truthy(last_motion.method)

\* C6: the slots of the frame that differ from 65535 are exactly the slots
\* supplied by position or by name.
C6_ExactlySuppliedDiffer ==
    rc_channel_values # <<>> =>
        \A i \in 1..18 :
            (rc_channel_values[i] # 65535) <=>
                \/ i \in DOMAIN rcin
                \/ i <= 11 /\ ChannelNames[i] \in DOMAIN named

\* C7: a channel given both by name and by position holds the named value.
C7_NamedWins ==
    rc_channel_values # <<>> =>
        \A i \in 1..11 :
            (ChannelNames[i] \in DOMAIN named /\ i \in DOMAIN rcin) =>
                rc_channel_values[i] = named[ChannelNames[i]]

\* C8: when the reply to a message is built, arm handling, mode handling and
\* the replacement of last_motion have all been applied: the reply carries
\* the handler's arm_result and the current status, a successful arm or
\* disarm result agrees with the armed flag, a requested mode is the current
\* mode, and a drive command of an armed vehicle is the stored intent.  For
\* the example package whose arm did not fail the reply has
\* arm_result.armed, is_armed and mode MANUAL.
C8_ReplyReflectsAppliedMessage ==
    [][\A c \in Clients :
          (running = c /\ pc[c] = "status" /\ pc'[c] # "status") =>
              /\ pc'[c] = "send"
              /\ sent'.to = c
              /\ sent'.body.message_received
              /\ sent'.body.arm_result = arm_result
              /\ sent'.body.navigator_status =
                    [mode |-> mode', is_armed |-> armed']
              /\ "arm" \in DOMAIN commands => "armed" \in DOMAIN arm_result
              /\ ("arm" \in DOMAIN commands /\ "error" \notin DOMAIN arm_result)
                    => /\ arm_result.armed = (commands.arm # 0)
                       /\ armed' = arm_result.armed
              /\ "mode" \in DOMAIN commands => mode' = Upper(commands.mode)
              /\ ("drive_method" \in DOMAIN commands /\ armed') =>
                    last_motion' = [method |-> commands.drive_method,
                                    data |-> commands]
              /\ (/\ "arm" \in DOMAIN commands /\ commands.arm = 1
                  /\ "mode" \in DOMAIN commands /\ commands.mode = "MANUAL"
                  /\ "drive_method" \in DOMAIN commands
                  /\ commands.drive_method = "manual"
                  /\ "error" \notin DOMAIN arm_result) =>
                    /\ sent'.body.arm_result.armed = TRUE
                    /\ sent'.body.navigator_status.is_armed = TRUE
                    /\ sent'.body.navigator_status.mode = "MANUAL"
      ]_vars

\* the reply to the example package that armed a disarmed vehicle
C8_Witness ==
    /\ sent # NoSent
    /\ "arm_result" \in DOMAIN sent.body
    /\ sent.body.arm_result = [armed |-> TRUE, message |-> "motors armed"]
    /\ sent.body.navigator_status = [mode |-> "MANUAL", is_armed |-> TRUE]
    /\ last_motion.method = "manual"
    /\ "mode" \in DOMAIN last_motion.data
    /\ last_motion.data.arm = 1

\* C9: text that is not JSON is answered with exactly
\* {"error": "Invalid JSON"} on the same connection; armed, mode and
\* last_motion are unchanged, nothing is called on the link, and the handler
\* stays in its message loop, from where it takes the next message.
C9_InvalidJson ==
    /\ [][\A c \in Clients :
            (/\ running = c /\ pc[c] = "parse" /\ pc'[c] # "parse"
             /\ message.kind = "garbage") =>
                /\ sent' = [to |-> c, body |-> [error |-> "Invalid JSON"]]
                /\ UNCHANGED <<armed, mode, last_motion, clients>>
                /\ calls' = <<>>
                /\ pc'[c] = "send"
        ]_vars
    /\ [](\A c \in Clients :
            (sent = [to |-> c, body |-> [error |-> "Invalid JSON"]]) =>
                /\ c \in clients
                /\ pc[c] = "send"
                /\ ENABLED SendDone(c))

\* the error reply was sent on an armed vehicle that holds an intent
C9_Witness ==
    \E c \in Clients :
        /\ sent = [to |-> c, body |-> [error |-> "Invalid JSON"]]
        /\ pc[c] = "send"
        /\ armed
        /\ Truthy(last_motion.method)

\* C10: when the arm or the disarm primitive fails, handle_arm returns a
\* result with an error string, armed is what it was, and the handler goes
\* on with the message on an open connection.
C10_PrimitiveFailureRecovered ==
    [][\A c \in Clients :
          (/\ running = c /\ pc[c] \in {"arm_prim", "disarm_prim"}
           /\ pc'[c] # pc[c]
           /\ ~LastCall(calls').ok) =>
              /\ "error" \in DOMAIN arm_result'
              /\ armed' = armed
              /\ pc'[c] = "mode"
              /\ c \in clients'
      ]_vars


\* positions of echo inside the handling of one message
Handling == {"parse", "arm", "arm_prim", "disarm_prim", "mode", "intent",
             "intent_data", "status"}

\* C11: a command naming a mode that the link's mode table does not hold is
\* a per-request error: the step that handles it leaves mode and armed state
\* alone, raises no exit, keeps the session in its message loop and leaves
\* the refresh loop alive.
C11_UnknownModeRecoverable ==
    [][\A c \in Clients :
         ( /\ running = c /\ pc[c] = "mode" /\ pc'[c] # "mode"
           /\ "mode" \in DOMAIN commands
           /\ commands.mode # status.mode
           /\ Upper(commands.mode) \notin ModeMapping )
         => /\ mode' = mode /\ armed' = armed
            /\ ~exit_pending' /\ ~exited'
            /\ pc'[c] \in Handling \cup {"send"}
            /\ loop_alive' = loop_alive]_vars

\* C12: whatever a message holds, the handler run it starts ends with a
\* JSON reply written to the same connection, and a session leaves its
\* message loop for teardown only from an await, on a disconnect.
C12_EveryMessageAnswered ==
    [][\A c \in Clients :
         /\ (pc[c] \in Handling /\ running = c /\ running' # c)
               => (pc'[c] = "send" /\ sent' # NoSent /\ sent'.to = c)
         /\ (pc[c] # "finally" /\ pc'[c] = "finally")
               => (running = 0 /\ pc[c] \in {"recv", "send"})]_vars

\* C13: on an interrupt-signal shutdown run() first puts the neutral frame on
\* the link and then calls the disarm primitive, and only then does the
\* process end, whatever the armed state and the stored intent; from the
\* interrupt on, no step is a refresh tick, so no refresh-loop command
\* follows that neutral frame.
C13_InterruptNeutralThenDisarm ==
    [][/\ (run_pc = "interrupted" /\ run_pc' # "interrupted")
             => (run_pc' = "disarm" /\ calls' = <<RcOverride(NeutralFrame)>>)
       /\ (run_pc # "done" /\ run_pc' = "done")
             => /\ run_pc = "disarm"
                /\ calls = <<RcOverride(NeutralFrame)>>
                /\ \E ok \in BOOLEAN :
                      /\ calls' = Append(calls, LinkDisarm(ok))
                      /\ ok => ~armed'
       /\ (run_pc # "run") => ran' # "motion_loop"]_vars

C13_Witness ==
    /\ run_pc = "done"
    /\ Truthy(last_motion.method)
    /\ loop_alive
    /\ calls = <<RcOverride(NeutralFrame), LinkDisarm(TRUE)>>

\* C14: an intent stored before a disarm (stale) is not revived by a later
\* arm: a refresh tick that finds a stale intent, which an armed vehicle has
\* only between such an arm and the next accepted drive command, sends no
\* command.
C14_RearmDoesNotReviveIntent ==
    (ran = "motion_loop" /\ stale) => calls = <<>>

\* C15: in every arm or disarm request that is not a no-op the call made on
\* the link just before the primitive is the neutral frame, and from that
\* frame to the primitive the only step taken is the requesting handler's
\* own: neither a refresh tick nor another client's handler puts a command
\* in between.
C15_NeutralThenPrimitive ==
    [][\A c \in Clients :
         pc[c] \in {"arm_prim", "disarm_prim"}
         => /\ running = c
            /\ pc'[c] \notin {"arm_prim", "disarm_prim"}
            /\ Len(calls) >= 1
            /\ LastCall(calls) = RcOverride(NeutralFrame)
            /\ Len(calls') = Len(calls) + 1
            /\ SubSeq(calls', 1, Len(calls)) = calls
            /\ LastCall(calls').op
                  = (IF pc[c] = "arm_prim" THEN "arm" ELSE "disarm")]_vars

C15_Witness ==
    \E c, d \in Clients :
        /\ c # d /\ pc[d] \in {"recv", "send"}
        /\ running = c /\ pc[c] = "mode"
        /\ Truthy(last_motion.method)
        /\ calls = <<RcOverride(NeutralFrame), LinkArm(TRUE)>>

\* C16: while a handler is in the settle delay and the confirmation wait of
\* the arm or disarm primitive, or in the telemetry read of the reply, the
\* refresh loop is not stalled: as long as the loop is alive a refresh tick
\* can be the next step.
C16_TickDuringBlockingCall ==
    \A c \in Clients :
        ( /\ pc[c] \in {"arm_prim", "disarm_prim", "status"}
          /\ loop_alive /\ ~exited )
        => ENABLED motion_loop

\* actuator commands of the refresh loop
MotionOps == {"rc_channels_override_send", "manual_control_send"}

\* C17: last_motion is written only by the intent block of a handler, and
\* only when the vehicle is armed after the message's arm and mode handling
\* and the message holds drive_method; it then becomes that message. A
\* message handled while disarmed or without drive_method leaves it alone.
\* The intent block makes no link call, and the handling of a message with
\* no arm field makes no manual-control or channel-override call at all.
C17_IntentReplacedOnlyByArmedDrive ==
    [][/\ last_motion' # last_motion
          => \E c \in Clients :
                /\ running = c /\ pc[c] \in {"intent", "intent_data"}
                /\ status.is_armed
                /\ "drive_method" \in DOMAIN commands
                /\ last_motion'.method = commands.drive_method
                /\ pc[c] = "intent_data" => last_motion'.data = commands
       /\ \A c \in Clients :
             /\ (running = c /\ pc[c] \in {"intent", "intent_data"})
                   => calls' = calls
             /\ ( /\ running = c /\ pc[c] = "intent"
                  /\ ~(status.is_armed /\ "drive_method" \in DOMAIN commands) )
                   => last_motion' = last_motion
             /\ ( /\ running = c /\ pc[c] \in Handling
                  /\ "arm" \notin DOMAIN commands )
                   => \A i \in DOMAIN calls' : calls'[i].op \notin MotionOps
      ]_vars

C17_Witness ==
    \E c \in Clients :
        /\ running = c /\ pc[c] = "status"
        /\ "arm" \notin DOMAIN commands
        /\ "drive_method" \in DOMAIN commands
        /\ last_motion = [method |-> commands.drive_method, data |-> commands]
        /\ calls = <<>>

\* the sessions that have sent the neutral frame of an arm, disarm or
\* teardown sequence and have not yet finished its primitive
InSequence == {c \in Clients : pc[c] \in {"arm_prim", "disarm_prim",
                                          "td_disarm"}}

\* C18: whatever the number of clients, at most one arm/disarm sequence is
\* in progress: a session inside a sequence holds the event loop, so no
\* other session and no shutdown sequence of run() is inside one or can
\* take a step until it is complete.
C18_OneArmSequence ==
    /\ Cardinality(InSequence) <= 1
    /\ \A c \in InSequence : running = c /\ run_pc # "disarm"
    /\ run_pc = "disarm" => (InSequence = {} /\ running = 0)

C18_Witness ==
    \E c, d \in Clients :
        /\ c # d
        /\ pc[c] = "disarm_prim" /\ running = c
        /\ pc[d] = "send"
        /\ calls = <<RcOverride(NeutralFrame)>>

\* the stored method and payload come from one and the same command
Paired ==
    Truthy(last_motion.method)
    => /\ "drive_method" \in DOMAIN last_motion.data
       /\ last_motion.data.drive_method = last_motion.method

\* C19: whenever the event loop is free, so that a refresh tick can read
\* it, the stored intent pairs the method of a command with the payload of
\* that same command; and a tick that sent a command did so for an armed
\* vehicle and from such a pair.
C19_TickSnapshot ==
    /\ running = 0 => Paired
    /\ (ran = "motion_loop" /\ calls # <<>>)
          => /\ status.is_armed
             /\ Truthy(last_motion.method)
             /\ Paired
             /\ Len(calls) = 1
             /\ \/ /\ last_motion.method = "manual"
                   /\ calls[1].op = "manual_control_send"
                \/ /\ last_motion.method = "rc_channels"
                   /\ calls[1] = RcOverride(LoopFrame(last_motion.data))

C19_Witness ==
    \E c, d \in Clients :
        /\ c # d /\ pc[c] = "send" /\ pc[d] = "recv"
        /\ ran = "motion_loop"
        /\ last_motion.method = "manual"
        /\ last_motion.data = ManualDrive
        /\ calls = <<ManualControl(500, 0, 0, 0, 0)>>

\* every channel value a client supplies in a channel-override command
SuppliedChannelValues ==
    UNION {{o[k] : k \in {"pitch", "roll", "throttle", "yaw"} \cap DOMAIN o} :
           o \in {x \in Objects : /\ "drive_method" \in DOMAIN x
                                  /\ x.drive_method = "rc_channels"}}

\* C20: provided every channel value supplied by a client lies in
\* 1100..1900, every channel-override frame handed to the link, by a
\* handler, a teardown, the shutdown or a refresh tick, has 18 slots, each
\* in 1100..1900 or equal to the no-change sentinel 65535.
C20_OverrideFramesInRange ==
    (\A v \in SuppliedChannelValues : v \in 1100..1900)
    => \A i \in DOMAIN calls :
          calls[i].op = "rc_channels_override_send"
          => /\ Len(calls[i].frame) = NumChannels
             /\ \A j \in DOMAIN calls[i].frame :
                   calls[i].frame[j] \in (1100..1900) \cup {Sentinel}

====
